---- MODULE Spec2Model ----
(***************************************************************************)
(* A model of blackvuesync.py: one run() of the dashcam synchronisation,   *)
(* followed by optional further runs against the same dashcam listing and  *)
(* destination.  Strings are sequences of one-character strings, so that   *)
(* the regular expressions and the slicing of the program are computed.    *)
(***************************************************************************)
EXTENDS Integers, Sequences, FiniteSets, TLC

(***************************************************************************)
(* Characters and strings                                                  *)
(***************************************************************************)
None == "None"

DigitChars == <<"0", "1", "2", "3", "4", "5", "6", "7", "8", "9">>

Letters ==
    {"a", "b", "c", "d", "e", "f", "g", "h", "i", "j", "k", "l", "m", "n", "o", "p",
     "q", "r", "s", "t", "u", "v", "w", "x", "y", "z", "A", "B", "C", "D", "E", "F",
     "G", "H", "I", "J", "K", "L", "M", "N", "O", "P", "Q", "R", "S", "T", "U", "V",
     "W", "X", "Y", "Z"}

\* \d of the regular expressions
IsDigit(c) == \E i \in 1..10 : DigitChars[i] = c

\* \w of the regular expressions
IsWord(c) == IsDigit(c) \/ c \in Letters \/ c = "_"

DigitVal(c) == (CHOOSE i \in 1..10 : DigitChars[i] = c) - 1

AllDigits(s) == \A i \in 1..Len(s) : IsDigit(s[i])

\* int() of a string of digits
RECURSIVE ToInt(_)
ToInt(s) == IF Len(s) = 0 THEN 0
            ELSE 10 * ToInt(SubSeq(s, 1, Len(s) - 1)) + DigitVal(s[Len(s)])

StartsWith(s, p) == Len(s) >= Len(p) /\ SubSeq(s, 1, Len(p)) = p

\* str.endswith
EndsWith(s, p) == Len(s) >= Len(p) /\ SubSeq(s, Len(s) - Len(p) + 1, Len(s)) = p

IsPrefix(s, t) == Len(s) <= Len(t) /\ SubSeq(t, 1, Len(s)) = s

\* s[:-n]
DropLast(s, n) == SubSeq(s, 1, Len(s) - n)

D2(n) == <<DigitChars[(n \div 10) + 1], DigitChars[(n % 10) + 1]>>

D4(n) == D2(n \div 100) \o D2(n % 100)

(***************************************************************************)
(* Dates: datetime.date, represented by its proleptic Gregorian ordinal    *)
(***************************************************************************)
IsLeap(y) == y % 4 = 0 /\ (y % 100 # 0 \/ y % 400 = 0)

DaysInMonth(y, m) ==
    IF m = 2 THEN (IF IsLeap(y) THEN 29 ELSE 28)
    ELSE IF m \in {4, 6, 9, 11} THEN 30 ELSE 31

RECURSIVE DaysBeforeMonth(_, _)
DaysBeforeMonth(y, m) ==
    IF m <= 1 THEN 0 ELSE DaysBeforeMonth(y, m - 1) + DaysInMonth(y, m - 1)

DaysBeforeYear(y) ==
    (y - 1) * 365 + ((y - 1) \div 4) - ((y - 1) \div 100) + ((y - 1) \div 400)

\* date(y, m, d).toordinal()
Ordinal(y, m, d) == DaysBeforeYear(y) + DaysBeforeMonth(y, m) + d

\* the checks of the datetime.datetime constructor
ValidDateTime(y, m, d, hh, mi, ss) ==
    /\ y >= 1
    /\ m \in 1..12
    /\ d >= 1 /\ d <= DaysInMonth(y, m)
    /\ hh <= 23 /\ mi <= 59 /\ ss <= 59

(***************************************************************************)
(* calc_cutoff_date                                                        *)
(***************************************************************************)
\* re.fullmatch(keep_re, keep): the length of the <range> group, 0 for no match
KeepRangeLen(keep) ==
    IF Len(keep) >= 1 /\ AllDigits(keep) THEN Len(keep)
    ELSE IF Len(keep) >= 2 /\ AllDigits(DropLast(keep, 1)) /\ keep[Len(keep)] \in {"d", "w"}
         THEN Len(keep) - 1
         ELSE 0

\* The outcomes of calc_cutoff_date(keep) on the day `today`: a date, or the
\* exception raised.  `keep_unit is "w"` compares identities of strings, whose
\* result the language leaves to the implementation: both outcomes are kept.
calc_cutoff_date(keep, today) ==
    LET n     == KeepRangeLen(keep)
        range == ToInt(SubSeq(keep, 1, n))
        unit  == IF n < Len(keep) THEN keep[Len(keep)] ELSE "d"
    IN  IF n = 0 THEN {[raised |-> "KeepFormat"]}
        ELSE IF range < 1 THEN {[raised |-> "KeepRange"]}
        ELSE IF unit = "d" THEN {[raised |-> None, date |-> today - range]}
        ELSE {[raised |-> None, date |-> today - 7 * range], [raised |-> "KeepUnit"]}

(***************************************************************************)
(* get_recording                                                           *)
(***************************************************************************)
ValueError == "ValueError"

\* re.fullmatch(filename_re, filename)
filename_re(f) ==
    /\ Len(f) >= 20
    /\ AllDigits(SubSeq(f, 1, 8))
    /\ f[9] = "_"
    /\ AllDigits(SubSeq(f, 10, 15))
    /\ f[16] = "_"
    /\ f[17] \in {"N", "E", "P", "M"}
    /\ f[18] \in {"F", "R"}
    /\ f[19] = "."
    /\ \A i \in 20..Len(f) : IsWord(f[i])

\* None for a name that does not match, ValueError for a name whose numbers are
\* no date and time, the Recording otherwise
get_recording(f) ==
    IF ~filename_re(f) THEN [kind |-> None]
    ELSE LET year   == ToInt(SubSeq(f, 1, 4))
             month  == ToInt(SubSeq(f, 5, 6))
             day    == ToInt(SubSeq(f, 7, 8))
             hour   == ToInt(SubSeq(f, 10, 11))
             minute == ToInt(SubSeq(f, 12, 13))
             second == ToInt(SubSeq(f, 14, 15))
         IN  IF ~ValidDateTime(year, month, day, hour, minute, second)
             THEN [kind |-> ValueError]
             ELSE [kind      |-> "Recording",
                   filename  |-> f,
                   date      |-> Ordinal(year, month, day),
                   time      |-> <<hour, minute, second>>,
                   type      |-> f[17],
                   direction |-> f[18],
                   extension |-> SubSeq(f, 20, Len(f))]

(***************************************************************************)
(* get_filenames                                                           *)
(***************************************************************************)
LinePrefix == <<"n", ":", "/", "R", "e", "c", "o", "r", "d", "/">>

LineSuffix == <<",", "s", ":", "1", "0", "0", "0", "0", "0", "0", "\r", "\n">>

DotMp4 == <<".", "m", "p", "4">>

\* re.fullmatch(file_line_re, file_line): `.` matches everything but a newline
file_line_re(line) ==
    /\ Len(line) >= Len(LinePrefix) + Len(DotMp4) + Len(LineSuffix)
    /\ StartsWith(line, LinePrefix)
    /\ EndsWith(line, LineSuffix)
    /\ LET name == SubSeq(line, Len(LinePrefix) + 1, Len(line) - Len(LineSuffix))
       IN  EndsWith(name, DotMp4) /\ \A i \in 1..Len(name) : name[i] # "\n"

\* file_line_match.group("filename")
LineFilename(line) == SubSeq(line, Len(LinePrefix) + 1, Len(line) - Len(LineSuffix))

RECURSIVE get_filenames(_)
get_filenames(file_lines) ==
    IF file_lines = <<>> THEN <<>>
    ELSE LET rest == get_filenames(Tail(file_lines))
         IN  IF file_line_re(Head(file_lines))
             THEN <<LineFilename(Head(file_lines))>> \o rest
             ELSE rest

(***************************************************************************)
(* get_outdated_recordings, get_current_recordings                         *)
(***************************************************************************)
\* cutoff_date = None
NoDate == 0

\* the cutoff day itself counted as outdated
IsOutdatedInclusive(r, cutoff) == r.date <= cutoff

IsOutdated(r, cutoff) == r.date < cutoff

\* the cutoff day itself not counted as current
IsCurrentStrict(r, cutoff) == r.date > cutoff

IsCurrent(r, cutoff) == r.date >= cutoff

RECURSIVE FilterOutdated(_, _)
FilterOutdated(recordings, cutoff) ==
    IF recordings = <<>> THEN <<>>
    ELSE (IF IsOutdated(Head(recordings), cutoff) THEN <<Head(recordings)>> ELSE <<>>)
         \o FilterOutdated(Tail(recordings), cutoff)

RECURSIVE FilterCurrent(_, _)
FilterCurrent(recordings, cutoff) ==
    IF recordings = <<>> THEN <<>>
    ELSE (IF IsCurrent(Head(recordings), cutoff) THEN <<Head(recordings)>> ELSE <<>>)
         \o FilterCurrent(Tail(recordings), cutoff)

get_outdated_recordings(recordings, cutoff) ==
    IF cutoff = NoDate THEN <<>> ELSE FilterOutdated(recordings, cutoff)

\* the comprehension reads x.datetime of every entry: an entry that is None
\* raises AttributeError
get_current_recordings(recordings, cutoff) ==
    IF cutoff = NoDate THEN [raised |-> None, value |-> recordings]
    ELSE IF \E k \in 1..Len(recordings) : recordings[k].kind = None
         THEN [raised |-> "AttributeError", value |-> <<>>]
         ELSE [raised |-> None, value |-> FilterCurrent(recordings, cutoff)]

\* [get_recording(x) for x in names]
Recordings(names) == [k \in 1..Len(names) |-> get_recording(names[k])]

\* get_destination_recordings on a directory listed in the order existing_files
get_destination_recordings(existing_files) ==
    LET all == Recordings(existing_files)
    IN  IF \E k \in 1..Len(all) : all[k].kind = ValueError
        THEN [raised |-> ValueError, value |-> <<>>]
        ELSE [raised |-> None, value |-> SelectSeq(all, LAMBDA r : r.kind # None)]

\* the orders in which os.listdir may return the names of a directory
Orderings(S) ==
    {s \in [1..Cardinality(S) -> S] : \A a, b \in 1..Cardinality(S) : a # b => s[a] # s[b]}

(***************************************************************************)
(* download_file, download_recording: names                                *)
(***************************************************************************)
\* the transfer written straight to the final path
temp_filename_final(filename) == filename

\* ".%s" % filename
temp_filename(filename) == <<".">> \o filename

NFmp4 == <<"_", "N", "F", ".", "m", "p", "4">>

\* the direction of the recording ignored
has_companions_any_direction(filename) ==
    EndsWith(filename, NFmp4) \/ EndsWith(filename, <<"_", "N", "R", ".", "m", "p", "4">>)

has_companions(filename) == EndsWith(filename, NFmp4)

base_filename(filename) == DropLast(filename, Len(NFmp4))

gps_filename(filename) == base_filename(filename) \o <<"_", "N", ".", "g", "p", "s">>

tgf_filename(filename) == base_filename(filename) \o <<"_", "N", ".", "3", "g", "f">>

(***************************************************************************)
(* Inputs of a run                                                         *)
(***************************************************************************)
MaxLines == 2

MaxFiles == 3

MaxRuns == 2

RecordingName(y, m, d, hh, mi, ss, td) ==
    D4(y) \o D2(m) \o D2(d) \o <<"_">> \o D2(hh) \o D2(mi) \o D2(ss) \o <<"_">> \o td \o DotMp4

ListingLine(name, size) == LinePrefix \o name \o <<",", "s", ":">> \o size \o <<"\r", "\n">>

Size1000000 == <<"1", "0", "0", "0", "0", "0", "0">>

Size2000000 == <<"2", "0", "0", "0", "0", "0", "0">>

\* datetime.date.today()
Todays == {Ordinal(2023, 3, 1)}

\* args.keep; the empty string stands for an option that was not given
Keeps == {<<>>, <<"2">>, <<"1", "w">>, <<"0">>, <<"k">>}

OlderNR == RecordingName(2023, 2, 20, 8, 0, 0, <<"N", "R">>)

OldNF == RecordingName(2023, 2, 26, 23, 59, 59, <<"N", "F">>)

CutNR == RecordingName(2023, 2, 27, 0, 0, 0, <<"N", "R">>)

CutEF == RecordingName(2023, 2, 27, 0, 0, 0, <<"E", "F">>)

NewPF == RecordingName(2023, 3, 1, 12, 30, 0, <<"P", "F">>)

Month13 == RecordingName(2023, 13, 1, 0, 0, 0, <<"N", "F">>)

NotARecording == <<"2", "0", "2", "3", "_", "N", "F">> \o DotMp4

VersionLine == <<"v", ":", "1", ".", "0", "0", "\r", "\n">>

\* the lines the dashcam may answer with
Lines ==
    {VersionLine,
     ListingLine(OldNF, Size1000000),
     ListingLine(CutNR, Size1000000),
     ListingLine(NotARecording, Size1000000),
     ListingLine(NewPF, Size2000000)}

Listings == UNION {[1..n -> Lines] : n \in 0..MaxLines}

\* the names a destination directory may hold before the run
LocalNames ==
    {OlderNR, OldNF, CutEF, gps_filename(OldNF), temp_filename(CutNR), Month13}

\* a hidden temporary file is what an interrupted download left; every other file
\* is whole
InitialContent(f) == IF Head(f) = "." THEN "partial" ELSE "complete"

Directories == {S \in SUBSET LocalNames : Cardinality(S) <= MaxFiles}

(***************************************************************************)
(* State                                                                   *)
(***************************************************************************)
VARIABLES
    pc,                 \* the position of the process
    result,             \* how run() ended
    err,                \* the exception that ended it
    dry_run,
    keep,               \* args.keep
    today,
    cutoff_date,
    dest,               \* what the destination path is
    content,            \* the files of the destination directory
    file_lines,         \* the body of the dashcam's answer to blackvue_vod.cgi
    dashcam_filenames,
    current,            \* current_dashcam_recordings
    i,                  \* the position of the download loop in `current`
    part,               \* which file of the recording download_recording is at
    target,             \* the filename download_file was called with
    outdated,           \* the outdated recordings still to remove
    attempts,           \* the filenames download_file was called with, in order
    requests,           \* the filenames requested from the dashcam, in order
    downloaded,         \* the filenames renamed to their final name, in order
    runNo,
    dest0,              \* dest and content when the run started
    content0,
    downloaded0         \* what the run before this one downloaded

vars ==
    <<pc, result, err, dry_run, keep, today, cutoff_date, dest, content, file_lines,
      dashcam_filenames, current, i, part, target, outdated, attempts, requests,
      downloaded, runNo, dest0, content0, downloaded0>>

config == <<dry_run, keep, today>>

loop == <<current, i, part, target>>

history == <<attempts, requests, downloaded>>

snapshot == <<runNo, dest0, content0, downloaded0>>

Init ==
    /\ pc = "run"
    /\ result = "running"
    /\ err = None
    /\ dry_run \in BOOLEAN
    /\ keep \in Keeps
    /\ today \in Todays
    /\ cutoff_date = NoDate
    /\ dest \in {"absent", "dir", "file", "readonly"}
    /\ \E S \in Directories :
          /\ dest # "dir" => S = {}
          /\ content = [f \in S |-> InitialContent(f)]
    /\ file_lines = <<>>
    /\ dashcam_filenames = <<>>
    /\ current = <<>>
    /\ i = 0
    /\ part = "none"
    /\ target = <<>>
    /\ outdated = <<>>
    /\ attempts = <<>>
    /\ requests = <<>>
    /\ downloaded = <<>>
    /\ runNo = 1
    /\ dest0 = dest
    /\ content0 = content
    /\ downloaded0 = <<>>

(***************************************************************************)
(* run                                                                     *)
(***************************************************************************)
\* an exception reaches `except Exception` of run(), which prints it and returns 1
Caught(e) ==
    /\ pc' = "exit"
    /\ result' = "failure"
    /\ err' = e

\* an exception leaves run()
Uncaught(e) ==
    /\ pc' = "exit"
    /\ result' = "uncaught"
    /\ err' = e

\* lines 253-256: an empty args.keep is false
CalcCutoff ==
    /\ pc = "run"
    /\ IF keep = <<>>
       THEN /\ pc' = "prepare"
            /\ UNCHANGED <<result, err, cutoff_date>>
       ELSE \E r \in calc_cutoff_date(keep, today) :
               IF r.raised = None
               THEN /\ cutoff_date' = r.date
                    /\ pc' = "prepare"
                    /\ UNCHANGED <<result, err>>
               ELSE /\ Uncaught(r.raised)
                    /\ UNCHANGED cutoff_date
    /\ UNCHANGED <<config, file_lines, dest, content, dashcam_filenames, loop, outdated, history, snapshot>>

(***************************************************************************)
(* prepare_destination                                                     *)
(***************************************************************************)
\* lines 196-198
MakeDestination ==
    /\ pc = "prepare"
    /\ dest = "absent"
    /\ dest' = "dir"
    /\ pc' = "sync"
    /\ UNCHANGED <<result, err, config, file_lines, cutoff_date, content, dashcam_filenames, loop,
                   outdated, history, snapshot>>

\* os.makedirs raises
MakeDestinationFails ==
    /\ pc = "prepare"
    /\ dest = "absent"
    /\ Caught("MakedirsError")
    /\ UNCHANGED <<config, file_lines, cutoff_date, dest, content, dashcam_filenames, loop, outdated,
                   history, snapshot>>

\* lines 201-206
RejectDestination ==
    /\ pc = "prepare"
    /\ dest \in {"file", "readonly"}
    /\ Caught(IF dest = "file" THEN "NotADirectory" ELSE "NotWritable")
    /\ UNCHANGED <<config, file_lines, cutoff_date, dest, content, dashcam_filenames, loop, outdated,
                   history, snapshot>>

\* lines 208-210: os.listdir returns the names in any order
ScanDestination ==
    /\ pc = "prepare"
    /\ dest = "dir"
    /\ IF cutoff_date = NoDate
       THEN /\ pc' = "sync"
            /\ UNCHANGED <<result, err, outdated>>
       ELSE \E existing_files \in Orderings(DOMAIN content) :
               LET existing_recordings == get_destination_recordings(existing_files)
                   outdated_recordings ==
                       get_outdated_recordings(existing_recordings.value, cutoff_date)
               IN  IF existing_recordings.raised # None
                   THEN /\ Caught(existing_recordings.raised)
                        /\ UNCHANGED outdated
                   ELSE /\ outdated' = outdated_recordings
                        /\ pc' = IF outdated_recordings = <<>> THEN "sync" ELSE "prune"
                        /\ UNCHANGED <<result, err>>
    /\ UNCHANGED <<config, file_lines, cutoff_date, dest, content, dashcam_filenames, loop, history,
                   snapshot>>

Without(f, name) == [g \in DOMAIN f \ {name} |-> f[g]]

\* lines 212-217, one iteration
PruneNext ==
    /\ outdated' = Tail(outdated)
    /\ pc' = IF Tail(outdated) = <<>> THEN "sync" ELSE "prune"
    /\ UNCHANGED <<result, err>>

RemoveOutdated ==
    /\ pc = "prune"
    /\ ~dry_run
    /\ content' = Without(content, Head(outdated).filename)
    /\ PruneNext
    /\ UNCHANGED <<config, file_lines, cutoff_date, dest, dashcam_filenames, loop, history, snapshot>>

\* os.remove raises
RemoveOutdatedFails ==
    /\ pc = "prune"
    /\ ~dry_run
    /\ Caught("RemoveError")
    /\ UNCHANGED <<config, file_lines, cutoff_date, dest, content, dashcam_filenames, loop, outdated,
                   history, snapshot>>

WouldRemoveOutdated ==
    /\ pc = "prune"
    /\ dry_run
    /\ PruneNext
    /\ UNCHANGED <<config, file_lines, cutoff_date, dest, content, dashcam_filenames, loop, history,
                   snapshot>>

(***************************************************************************)
(* sync                                                                    *)
(***************************************************************************)
\* get_dashcam_filenames, lines 112-117: the request fails
ListRemoteUnreachable ==
    /\ pc = "sync"
    /\ Caught("URLError")
    /\ UNCHANGED <<config, file_lines, cutoff_date, dest, content, dashcam_filenames, loop,
                   outdated, history, snapshot>>

\* lines 119-121
ListRemoteBadStatus ==
    /\ pc = "sync"
    /\ Caught("StatusCode")
    /\ UNCHANGED <<config, file_lines, cutoff_date, dest, content, dashcam_filenames, loop,
                   outdated, history, snapshot>>

\* lines 123-126: the dashcam answers; a later run gets the same answer
ListRemote ==
    /\ pc = "sync"
    /\ IF runNo = 1 THEN file_lines' \in Listings ELSE file_lines' = file_lines
    /\ dashcam_filenames' = get_filenames(file_lines')
    /\ pc' = "filter"
    /\ UNCHANGED <<result, err, config, cutoff_date, dest, content, loop, outdated, history,
                   snapshot>>

\* the loop of sync reaches position k of the recordings cur: line 227, and line
\* 156, where download_recording reads recording.filename
Advance(cur, k) ==
    /\ i' = k
    /\ IF k > Len(cur)
       THEN /\ pc' = "exit"
            /\ result' = "success"
            /\ UNCHANGED <<err, part, target>>
       ELSE IF cur[k].kind = None
       THEN /\ Caught("AttributeError")
            /\ UNCHANGED <<part, target>>
       ELSE /\ pc' = "download_file"
            /\ part' = "main"
            /\ target' = cur[k].filename
            /\ UNCHANGED <<result, err>>

\* lines 224-225
FilterRecordings ==
    /\ pc = "filter"
    /\ LET dashcam_recordings == Recordings(dashcam_filenames)
           current_dashcam_recordings == get_current_recordings(dashcam_recordings, cutoff_date)
       IN  IF \E k \in 1..Len(dashcam_recordings) : dashcam_recordings[k].kind = ValueError
           THEN /\ Caught(ValueError)
                /\ UNCHANGED loop
           ELSE IF current_dashcam_recordings.raised # None
           THEN /\ Caught(current_dashcam_recordings.raised)
                /\ UNCHANGED loop
           ELSE /\ current' = current_dashcam_recordings.value
                /\ Advance(current', 1)
    /\ UNCHANGED <<config, file_lines, cutoff_date, dest, content, dashcam_filenames, outdated,
                   history, snapshot>>

(***************************************************************************)
(* download_recording, download_file                                       *)
(***************************************************************************)
\* download_file returns to download_recording: lines 160-167, then line 227
Return ==
    /\ current' = current
    /\ LET filename == current[i].filename
       IN  IF part = "main" /\ has_companions(filename)
           THEN /\ part' = "gps"
                /\ target' = gps_filename(filename)
                /\ pc' = "download_file"
                /\ UNCHANGED <<result, err, i>>
           ELSE IF part = "gps"
           THEN /\ part' = "3gf"
                /\ target' = tgf_filename(filename)
                /\ pc' = "download_file"
                /\ UNCHANGED <<result, err, i>>
           ELSE Advance(current, i + 1)

\* the check for an existing file left out
os_path_exists_never(filename) == FALSE

\* os.path.exists(os.path.join(destination, filename))
os_path_exists(filename) == filename \in DOMAIN content

\* lines 133-137: the file is there already
AlreadyDownloaded ==
    /\ pc = "download_file"
    /\ os_path_exists(target)
    /\ attempts' = Append(attempts, target)
    /\ Return
    /\ UNCHANGED <<config, file_lines, cutoff_date, dest, content, dashcam_filenames, outdated,
                   requests, downloaded, snapshot>>

\* lines 149-150
WouldDownload ==
    /\ pc = "download_file"
    /\ ~os_path_exists(target)
    /\ dry_run
    /\ attempts' = Append(attempts, target)
    /\ Return
    /\ UNCHANGED <<config, file_lines, cutoff_date, dest, content, dashcam_filenames, outdated,
                   requests, downloaded, snapshot>>

\* lines 139-146: urlretrieve opens the URL, then the temporary file for writing
StartDownload ==
    /\ pc = "download_file"
    /\ ~os_path_exists(target)
    /\ ~dry_run
    /\ attempts' = Append(attempts, target)
    /\ requests' = Append(requests, target)
    /\ content' = (temp_filename(target) :> "partial") @@ content
    /\ pc' = "urlretrieve"
    /\ UNCHANGED <<result, err, config, file_lines, cutoff_date, dest, dashcam_filenames, loop,
                   outdated, downloaded, snapshot>>

\* line 146: the dashcam refuses the request; no file is opened
DownloadRefused ==
    /\ pc = "download_file"
    /\ ~os_path_exists(target)
    /\ ~dry_run
    /\ attempts' = Append(attempts, target)
    /\ requests' = Append(requests, target)
    /\ Caught("DownloadRefused")
    /\ UNCHANGED <<config, file_lines, cutoff_date, dest, content, dashcam_filenames, loop,
                   outdated, downloaded, snapshot>>

\* line 146: the last block is written
FinishDownload ==
    /\ pc = "urlretrieve"
    /\ content' = [content EXCEPT ![temp_filename(target)] = "complete"]
    /\ pc' = "rename"
    /\ UNCHANGED <<result, err, config, file_lines, cutoff_date, dest, dashcam_filenames, loop,
                   outdated, history, snapshot>>

\* a failed transfer that removes what the run downloaded before it
DownloadFailsRollsBack ==
    /\ pc = "urlretrieve"
    /\ Caught("ContentTooShortError")
    /\ content' = [f \in DOMAIN content \ {downloaded[k] : k \in 1..Len(downloaded)} |-> content[f]]
    /\ UNCHANGED <<config, file_lines, cutoff_date, dest, dashcam_filenames, loop, outdated,
                   history, snapshot>>

\* line 146: the transfer breaks off
DownloadFails ==
    /\ pc = "urlretrieve"
    /\ Caught("ContentTooShortError")
    /\ UNCHANGED <<config, file_lines, cutoff_date, dest, content, dashcam_filenames, loop,
                   outdated, history, snapshot>>

\* line 147
Rename ==
    /\ pc = "rename"
    /\ content' = (target :> content[temp_filename(target)])
                     @@ Without(content, temp_filename(target))
    /\ downloaded' = Append(downloaded, target)
    /\ Return
    /\ UNCHANGED <<config, file_lines, cutoff_date, dest, dashcam_filenames, outdated, attempts,
                   requests, snapshot>>

\* os.rename raises
RenameFails ==
    /\ pc = "rename"
    /\ Caught("RenameError")
    /\ UNCHANGED <<config, file_lines, cutoff_date, dest, content, dashcam_filenames, loop,
                   outdated, history, snapshot>>

(***************************************************************************)
(* The environment                                                         *)
(***************************************************************************)
\* the process is interrupted
Interrupt ==
    /\ pc # "exit"
    /\ pc' = "exit"
    /\ result' = "killed"
    /\ UNCHANGED <<err, config, file_lines, cutoff_date, dest, content, dashcam_filenames, loop,
                   outdated, history, snapshot>>

\* the program is run again with the same options, against the same dashcam
\* listing and the destination as the last run left it
RunAgain ==
    /\ pc = "exit"
    /\ result = "success"
    /\ runNo < MaxRuns
    /\ runNo' = runNo + 1
    /\ dest0' = dest
    /\ content0' = content
    /\ downloaded0' = downloaded
    /\ pc' = "prepare"
    /\ result' = "running"
    /\ dashcam_filenames' = <<>>
    /\ current' = <<>>
    /\ i' = 0
    /\ part' = "none"
    /\ target' = <<>>
    /\ attempts' = <<>>
    /\ requests' = <<>>
    /\ downloaded' = <<>>
    /\ UNCHANGED <<err, config, file_lines, cutoff_date, dest, content, outdated>>

Next ==
    \/ CalcCutoff
    \/ MakeDestination
    \/ MakeDestinationFails
    \/ RejectDestination
    \/ ScanDestination
    \/ RemoveOutdated
    \/ RemoveOutdatedFails
    \/ WouldRemoveOutdated
    \/ ListRemoteUnreachable
    \/ ListRemoteBadStatus
    \/ ListRemote
    \/ FilterRecordings
    \/ AlreadyDownloaded
    \/ WouldDownload
    \/ StartDownload
    \/ DownloadRefused
    \/ FinishDownload
    \/ DownloadFails
    \/ Rename
    \/ RenameFails
    \/ Interrupt
    \/ RunAgain

Spec == Init /\ [][Next]_vars

(***************************************************************************)
(* Properties                                                              *)
(***************************************************************************)
Range(s) == {s[k] : k \in 1..Len(s)}

Hidden(f) == Head(f) = "."

IsRecordingName(f) == get_recording(f).kind = "Recording"

DateOfName(f) == get_recording(f).date

\* the main files among the calls of download_file
MainAttempts == SelectSeq(attempts, IsRecordingName)

\* C1: crash safety of download_file.  In every state, also after an interrupt
\* or a failed transfer, every file of the destination that is not whole is a
\* hidden temporary file, and every file under a final name was there when the
\* run started or was renamed after its transfer had finished.
CrashSafety ==
    \A f \in DOMAIN content :
        /\ content[f] # "complete" => Hidden(f)
        /\ ~Hidden(f) => f \in DOMAIN content0 \/ f \in Range(downloaded)

InterruptedDownload ==
    /\ result = "killed"
    /\ ~os_path_exists(target)
    /\ os_path_exists(temp_filename(target))
    /\ content[temp_filename(target)] = "partial"
    /\ temp_filename(target) \notin DOMAIN content0

\* C2: idempotence.  A run that follows a successful run, with the same listing
\* and cutoff, requests no file from the dashcam, renames none and leaves the
\* destination as it found it; unless it is a dry run, every file it is asked
\* to download is there already.
SecondRunDownloadsNothing ==
    runNo >= 2 =>
        /\ requests = <<>>
        /\ downloaded = <<>>
        /\ dest = dest0
        /\ content = content0
        /\ ~dry_run => \A f \in Range(attempts) : f \in DOMAIN content0

SecondRunAfterDownloads ==
    /\ runNo = 2
    /\ pc = "exit"
    /\ result = "success"
    /\ cutoff_date # NoDate
    /\ Len(downloaded0) >= 3
    /\ Len(attempts) >= 4

\* a file of the destination whose name parses as a Recording of a day before
\* the cutoff
OutdatedName(f) == IsRecordingName(f) /\ DateOfName(f) < cutoff_date

\* C3: pruning.  Until the first download, the destination only loses files, and
\* only files whose name parses as a Recording dated before the cutoff, and only
\* with a cutoff set and dry-run off; once prepare_destination has returned with
\* a cutoff set and dry-run off, none of those files is left.
PruningDeletesExactlyOutdated ==
    attempts = <<>> =>
        /\ DOMAIN content \subseteq DOMAIN content0
        /\ \A f \in DOMAIN content0 :
              (cutoff_date = NoDate \/ dry_run \/ ~OutdatedName(f)) =>
                  f \in DOMAIN content /\ content[f] = content0[f]
        /\ (pc = "sync" /\ cutoff_date # NoDate /\ ~dry_run) =>
              \A f \in DOMAIN content : ~OutdatedName(f)

PrunedDestination ==
    /\ pc = "sync"
    /\ ~dry_run
    /\ cutoff_date # NoDate
    /\ \E f \in DOMAIN content0 : OutdatedName(f) /\ f \notin DOMAIN content
    /\ \E f \in DOMAIN content : IsRecordingName(f) /\ DateOfName(f) = cutoff_date
    /\ \E f \in DOMAIN content : ~IsRecordingName(f)

\* C4: a dry run changes nothing: the destination path and the files are as
\* the run found them, and no file is requested from the dashcam.
DryRunChangesNothing ==
    dry_run => dest = dest0 /\ content = content0 /\ requests = <<>>

\* C5: a name of the listing that does not parse is skipped or reported; sync
\* never reads an attribute of the absent Recording.
AbsentRecordingNeverDereferenced == err # "AttributeError"

\* a line of the form n:/Record/<filename>,s:<size>\r\n, with any size
SizeStart(line) ==
    {k \in (Len(LinePrefix) + 1)..(Len(line) - 5) :
        /\ SubSeq(line, k, k + 2) = <<",", "s", ":">>
        /\ AllDigits(SubSeq(line, k + 3, Len(line) - 2))}

DocumentedLine(line) ==
    /\ StartsWith(line, LinePrefix)
    /\ EndsWith(line, <<"\r", "\n">>)
    /\ SizeStart(line) # {}

DocumentedFilename(line) ==
    LET k == CHOOSE a \in SizeStart(line) : \A b \in SizeStart(line) : b <= a
    IN  SubSeq(line, Len(LinePrefix) + 1, k - 1)

RECURSIVE DocumentedFilenames(_)
DocumentedFilenames(lines) ==
    IF lines = <<>> THEN <<>>
    ELSE (IF DocumentedLine(Head(lines)) THEN <<DocumentedFilename(Head(lines))>> ELSE <<>>)
         \o DocumentedFilenames(Tail(lines))

\* C6: get_filenames returns the filenames of the lines of the form
\* n:/Record/<filename>,s:<size>\r\n, for any size, in the order of the lines.
ListingParsedForAnySize ==
    pc = "filter" => dashcam_filenames = DocumentedFilenames(file_lines)

\* a name of the listing whose recording is on or after the cutoff
CurrentName(f) ==
    IsRecordingName(f) /\ (cutoff_date = NoDate \/ DateOfName(f) >= cutoff_date)

\* C7: the main files are attempted in the order of the listing, and they are
\* the recordings of the listing dated on or after the cutoff (all of them with
\* no cutoff): at every moment the attempts made are the first of them, and a
\* sync that succeeds has attempted every one.
OnlyCurrentInListingOrder ==
    /\ IsPrefix(MainAttempts, SelectSeq(dashcam_filenames, CurrentName))
    /\ (pc = "exit" /\ result = "success") =>
          MainAttempts = SelectSeq(dashcam_filenames, CurrentName)

CurrentDownloadedOutdatedSkipped ==
    /\ pc = "exit"
    /\ result = "success"
    /\ cutoff_date # NoDate
    /\ \E f \in Range(dashcam_filenames) : OutdatedName(f) /\ f \notin Range(attempts)
    /\ \E f \in Range(downloaded) : IsRecordingName(f) /\ DateOfName(f) = cutoff_date

\* the calls of download_file the claim describes for the main files `names`
RECURSIVE WithCompanions(_)
WithCompanions(names) ==
    IF names = <<>> THEN <<>>
    ELSE LET f    == Head(names)
             stem == SubSeq(f, 1, Len(f) - 7)
         IN  (IF SubSeq(f, Len(f) - 6, Len(f)) = <<"_", "N", "F", ".", "m", "p", "4">>
              THEN <<f, stem \o <<"_", "N", ".", "g", "p", "s">>,
                        stem \o <<"_", "N", ".", "3", "g", "f">>>>
              ELSE <<f>>)
             \o WithCompanions(Tail(names))

\* C8: the calls of download_file are, for each main file in turn, the main file
\* followed by its .gps and then its .3gf companion when its name ends in
\* _NF.mp4, and the main file alone otherwise; a companion that is there already
\* is not requested.
CompanionsFollowFrontNormal ==
    /\ IsPrefix(attempts, WithCompanions(MainAttempts))
    /\ (pc = "exit" /\ result = "success") => attempts = WithCompanions(MainAttempts)
    /\ (pc = "download_file" /\ part = "main") =>
          attempts = WithCompanions(MainAttempts)
    /\ \A f \in Range(requests) : f \notin DOMAIN content0

FrontWithCompanionsRearWithout ==
    /\ pc = "exit"
    /\ result = "success"
    /\ \E f \in Range(downloaded) :
          /\ has_companions(f)
          /\ gps_filename(f) \in Range(attempts) \ Range(downloaded)
          /\ tgf_filename(f) \in Range(downloaded)
    /\ \E f \in Range(downloaded) : IsRecordingName(f) /\ ~has_companions(f)

\* C9: every failure is caught by run() and ends it with the failure outcome.
EveryErrorCaught == err # None => result = "failure"

DownloadErrors == {"DownloadRefused", "ContentTooShortError", "RenameError"}

\* C10: fail-fast download loop.  When a download has failed, the run has ended
\* in failure; the last call of download_file is the one that failed and its
\* file is not in the destination; every file downloaded before it is there,
\* whole; and no file was requested twice.
FailFast ==
    /\ err \in DownloadErrors =>
          /\ pc = "exit"
          /\ result = "failure"
          /\ attempts # <<>>
          /\ attempts[Len(attempts)] = target
          /\ ~os_path_exists(target)
          /\ \A f \in Range(downloaded) : os_path_exists(f) /\ content[f] = "complete"
          /\ Len(requests) = Len(downloaded) + 1
    /\ \A a, b \in 1..Len(requests) : a # b => requests[a] # requests[b]

FailedAfterDownloads ==
    /\ err = "ContentTooShortError"
    /\ Len(downloaded) >= 1
    /\ i < Len(current)

====
